---- MODULE Spec2Model ----
(***************************************************************************)
(* Model of ansible_content_parser/__main__.py: the command-line entry     *)
(* point _run_cli_entrypoint, main, parse_args, execute_ansiblelint, pushd *)
(* and LintableDict.  The downloader, the lint engine, the sage pipeline   *)
(* and the report renderer are external calls: each either returns or      *)
(* raises one of the exception kinds the entry point distinguishes.        *)
(***************************************************************************)
EXTENDS Integers, Sequences, FiniteSets, TLC

VARIABLES
    sys_argv,            \* the parsed view of sys.argv[1:], fixed for a run
    pc,                  \* position of the process in _run_cli_entrypoint / main
    options,             \* _run_cli_entrypoint: options (Namespace) or Unbound
    args,                \* main: args (Namespace) or Unbound
    out_path,            \* main: local out_path, Unbound until line 108 runs
    lint_argv,           \* main: argv handed to the lint engine (line 113-115)
    return_code,         \* _run_cli_entrypoint: local return_code or Unbound
    cwd,                 \* the process working directory
    pushd_stack,         \* previous_dir of every active pushd, innermost first
    engine,              \* what ansiblelint_main did: pending / returned / raised
    serializable_result, \* main: serializable_result or Unbound
    sage_scanning_args,  \* the mapping handed to sage.run_pipeline or Unbound
    environ,             \* os.environ entries the run sets
    fs,                  \* paths that exist on disk
    outcome,             \* how the process ended: running / exit / uncaught
    calls,               \* history: external stages and writes, in order
    raised,              \* history: what was raised, and where
    main_result,         \* history: the value main returned, or Unbound
    sage,                \* history: what sage.run_pipeline did
    entry_cwd,           \* history: cwd the caller had at each pushd entry
    last_exit,           \* history: how the last pushd was left
    log                  \* the records handed to _logger, in order

vars == <<sys_argv, pc, options, args, out_path, lint_argv, return_code, cwd,
          pushd_stack, engine, serializable_result, sage_scanning_args,
          environ, fs, outcome, calls, raised, main_result, sage, entry_cwd,
          last_exit, log>>

(***************************************************************************)
(* Bounds.                                                                 *)
(***************************************************************************)
MaxFiles == 2

MaxDepth == 2

(***************************************************************************)
(* Python values: every value carries its type, so that str(), truth       *)
(* testing and the / operator behave as they do on the real types.         *)
(***************************************************************************)
PyNone == [t |-> "NoneType", s |-> "", n |-> 0]

PyStr(x) == [t |-> "str", s |-> x, n |-> 0]

PyInt(k) == [t |-> "int", s |-> "", n |-> k]

PyBool(b) == [t |-> "bool", s |-> "", n |-> IF b THEN 1 ELSE 0]

PyPath(x) == [t |-> "Path", s |-> x, n |-> 0]

PyExc(cls, errno) == [t |-> "exception", s |-> cls, n |-> errno]

Unbound == [t |-> "unbound", s |-> "", n |-> 0]

\* bool(v): Python truth value
Truthy(v) ==
    CASE v.t = "NoneType" -> FALSE
      [] v.t = "str" -> v.s # ""
      [] v.t = "int" -> v.n # 0
      [] v.t = "bool" -> v.n # 0
      [] OTHER -> TRUE

\* str(v)
str(v) ==
    CASE v.t = "NoneType" -> PyStr("None")
      [] v.t = "bool" -> PyStr(IF v.n = 1 THEN "True" ELSE "False")
      [] OTHER -> PyStr(v.s)

\* Path(v): a TypeError unless v is a str or a path
Path(v) ==
    IF v.t \in {"str", "Path"} THEN PyPath(v.s) ELSE PyExc("TypeError", 0)

\* a / b: defined by pathlib only; str / str raises TypeError
TrueDiv(a, b) ==
    IF (a.t = "Path" /\ b.t \in {"str", "Path"}) \/ (a.t = "str" /\ b.t = "Path")
    THEN PyPath(a.s \o "/" \o b.s)
    ELSE PyExc("TypeError", 0)

(***************************************************************************)
(* Exceptions.                                                             *)
(***************************************************************************)
\* errno.EPIPE
EPIPE == 32

\* ansiblelint.constants.RC.EXIT_CONTROL_C
EXIT_CONTROL_C == 130

\* What an external call can raise, as far as the handlers tell the kinds
\* apart: a broken pipe, an OSError with any other errno, a user interrupt,
\* a RuntimeError, and any other Exception (ValueError stands for them).
Raisable ==
    { PyExc("OSError", EPIPE), PyExc("OSError", EPIPE + 1),
      PyExc("KeyboardInterrupt", 0), PyExc("RuntimeError", 0),
      PyExc("ValueError", 0) }

\* isinstance(exc, Exception): KeyboardInterrupt and SystemExit are not
IsException(exc) == exc.s \notin {"KeyboardInterrupt", "SystemExit"}

Running == [kind |-> "running", code |-> Unbound]

\* sys.exit(code): SystemExit leaves every handler of the entry point
SysExit(code) == [kind |-> "exit", code |-> code]

Uncaught(exc) == [kind |-> "uncaught", code |-> exc]

\* the status the interpreter reports for SystemExit(code)
ExitStatus(code) ==
    CASE code.t = "NoneType" -> 0
      [] code.t = "int" -> code.n % 256
      [] OTHER -> 1

(***************************************************************************)
(* parse_args (lines 71-98).  sys_argv is the command line as argparse     *)
(* tokenises it: one value per option, None (or "" for --out-dir, False    *)
(* for --verbose) when the option is absent.                               *)
(***************************************************************************)
Namespace(dir, source_type, repo_name, out_dir, verbose, url) ==
    [t |-> "Namespace", dir |-> dir, source_type |-> source_type,
     repo_name |-> repo_name, out_dir |-> out_dir, verbose |-> verbose,
     url |-> url, ari_kb_data_dir |-> Unbound]

CommandLines ==
    { Namespace(d, PyNone, r, o, PyBool(v), u) :
        d \in {PyNone, PyStr("/src")},
        r \in {PyNone, PyStr("ns/given")},
        o \in {PyStr(""), PyStr("/out")},
        v \in BOOLEAN,
        u \in {PyNone, PyStr("https://example/repo.git")} }

\* parse_args with the test of line 95 mis-parenthesised:
\* not (args.out_dir and args.dir or args.url)
parse_args_precedence(argv) ==
    IF ~((Truthy(argv.out_dir) /\ Truthy(argv.dir)) \/ Truthy(argv.url))
    THEN PyExc("SystemExit", 1)
    ELSE argv

\* parse_args demanding exactly one of --dir and --url
parse_args_exactly_one(argv) ==
    IF ~(Truthy(argv.out_dir) /\ (Truthy(argv.dir) # Truthy(argv.url)))
    THEN PyExc("SystemExit", 1)
    ELSE argv

\* the value parse_args returns, or the SystemExit(1) it raises after
\* printing the usage
parse_args(argv) ==
    IF ~(Truthy(argv.out_dir) /\ (Truthy(argv.dir) \/ Truthy(argv.url)))
    THEN PyExc("SystemExit", 1)
    ELSE argv

(***************************************************************************)
(* The lint engine's result and its projection (LintableDict, lines 30-44, *)
(* execute_ansiblelint, lines 59-68).                                      *)
(***************************************************************************)
Lintable(base_kind, dir, exc, filename, kind, name, parent, role, stop, upd) ==
    [t |-> "Lintable", base_kind |-> base_kind, dir |-> dir, exc |-> exc,
     filename |-> filename, kind |-> kind, name |-> name, parent |-> parent,
     role |-> role, stop_processing |-> stop, updated |-> upd]

\* a playbook at the root: no parent, no error
SiteYml ==
    Lintable(PyStr("text/yaml"), PyStr("."), PyNone, PyStr("site.yml"),
             PyStr("playbook"), PyStr("site.yml"), PyNone, PyStr(""),
             PyBool(FALSE), PyBool(FALSE))

\* a task file of a role, reached from the playbook and rewritten by --write
TasksYml ==
    Lintable(PyStr("text/yaml"), PyStr("roles/web/tasks"), PyNone,
             PyStr("roles/web/tasks/main.yml"), PyStr("tasks"),
             PyStr("roles/web/tasks/main.yml"), SiteYml, PyStr("web"),
             PyBool(FALSE), PyBool(TRUE))

\* a file the engine could not load: exc is set (its s field is the
\* exception's message, which is what str(exc) gives)
BrokenYml ==
    Lintable(PyStr(""), PyStr("."), PyExc("syntax error", 0),
             PyStr("broken.yml"), PyStr("yaml"), PyStr("broken.yml"), PyNone,
             PyStr("None"), PyBool(TRUE), PyBool(FALSE))

Lintables == {SiteYml, TasksYml, BrokenYml}

\* the sequences over S of length at most n
SeqsUpTo(S, n) == UNION { [1..k -> S] : k \in 0..n }

LintableDict(lintable) ==
    [base_kind |-> str(lintable.base_kind),
     dir |-> str(lintable.dir),
     exc |-> IF lintable.exc.t = "NoneType" THEN PyNone ELSE str(lintable.exc),
     filename |-> str(lintable.filename),
     kind |-> str(lintable.kind),
     name |-> str(lintable.name),
     parent |-> IF lintable.parent.t = "NoneType" THEN PyNone
                ELSE str(lintable.parent.name),
     role |-> str(lintable.role),
     stop_processing |-> PyBool(Truthy(lintable.stop_processing)),
     updated |-> PyBool(Truthy(lintable.updated))]

\* execute_ansiblelint building the list back to front
execute_ansiblelint_reversed(files) ==
    [files |-> [i \in 1..Len(files) |-> LintableDict(files[Len(files) + 1 - i])]]

\* the value execute_ansiblelint returns for the engine's result.files
execute_ansiblelint(files) ==
    [files |-> [i \in 1..Len(files) |-> LintableDict(files[i])]]

(***************************************************************************)
(* pushd (lines 48-56): previous_dir = Path.cwd() is saved on entry and    *)
(* os.chdir(previous_dir) runs in the finally clause on every way out.     *)
(***************************************************************************)
\* the saved directories after entering pushd from working directory c
pushd_enter(stack, c) == <<c>> \o stack

\* pushd without try/finally: the directory is restored on a normal return
\* only
pushd_no_finally(stack, c, raising) == IF raising THEN c ELSE Head(stack)

\* the working directory after leaving the innermost pushd; c is the
\* working directory the scoped operation left, raising tells how it ended
pushd_finally(stack, c, raising) == Head(stack)

(***************************************************************************)
(* json.dumps / json.loads on the values the lint result holds: dicts with *)
(* string keys, lists, str, None and bool.  The text is kept as its        *)
(* sequence of tokens.                                                     *)
(***************************************************************************)
Tok(k, v) == [k |-> k, v |-> v]

\* dict insertion order of LintableDict.__init__
LintableKeys ==
    <<"base_kind", "dir", "exc", "filename", "kind", "name", "parent",
      "role", "stop_processing", "updated">>

DumpsScalar(v) ==
    CASE v.t = "NoneType" -> <<Tok("null", "")>>
      [] v.t = "bool" -> <<Tok(IF v.n = 1 THEN "true" ELSE "false", "")>>
      [] v.t = "str" -> <<Tok("string", v.s)>>

RECURSIVE DumpsMembers(_, _, _)
DumpsMembers(d, keys, i) ==
    IF i > Len(keys) THEN <<>>
    ELSE (IF i > 1 THEN <<Tok(",", "")>> ELSE <<>>)
         \o <<Tok("string", keys[i]), Tok(":", "")>> \o DumpsScalar(d[keys[i]])
         \o DumpsMembers(d, keys, i + 1)

DumpsDict(d) ==
    <<Tok("{", "")>> \o DumpsMembers(d, LintableKeys, 1) \o <<Tok("}", "")>>

RECURSIVE DumpsElements(_, _)
DumpsElements(list, i) ==
    IF i > Len(list) THEN <<>>
    ELSE (IF i > 1 THEN <<Tok(",", "")>> ELSE <<>>)
         \o DumpsDict(list[i]) \o DumpsElements(list, i + 1)

\* json.dumps(serializable_result, indent=2), white space left out
json_dumps(result) ==
    <<Tok("{", ""), Tok("string", "files"), Tok(":", ""), Tok("[", "")>>
    \o DumpsElements(result.files, 1)
    \o <<Tok("]", ""), Tok("}", "")>>

\* the dict built from the parsed members, a later key replacing an earlier
DictOf(members) ==
    [key \in {members[i][1] : i \in 1..Len(members)} |->
        LET last == CHOOSE i \in 1..Len(members) :
                        /\ members[i][1] = key
                        /\ \A j \in i + 1..Len(members) : members[j][1] # key
        IN members[last][2]]

\* Recursive descent over the tokens from position i; the result is the
\* parsed value and the position after it.
RECURSIVE ParseValue(_, _)
RECURSIVE ParseMembers(_, _, _)
RECURSIVE ParseElements(_, _, _)
ParseValue(toks, i) ==
    CASE toks[i].k = "null" -> [val |-> PyNone, next |-> i + 1]
      [] toks[i].k = "true" -> [val |-> PyBool(TRUE), next |-> i + 1]
      [] toks[i].k = "false" -> [val |-> PyBool(FALSE), next |-> i + 1]
      [] toks[i].k = "string" -> [val |-> PyStr(toks[i].v), next |-> i + 1]
      [] toks[i].k = "{" ->
            IF toks[i + 1].k = "}" THEN [val |-> DictOf(<<>>), next |-> i + 2]
            ELSE ParseMembers(toks, i + 1, <<>>)
      [] toks[i].k = "[" ->
            IF toks[i + 1].k = "]" THEN [val |-> <<>>, next |-> i + 2]
            ELSE ParseElements(toks, i + 1, <<>>)

ParseMembers(toks, i, acc) ==
    LET v == ParseValue(toks, i + 2)
        got == Append(acc, <<toks[i].v, v.val>>)
    IN IF toks[v.next].k = ","
       THEN ParseMembers(toks, v.next + 1, got)
       ELSE [val |-> DictOf(got), next |-> v.next + 1]

ParseElements(toks, i, acc) ==
    LET v == ParseValue(toks, i)
        got == Append(acc, v.val)
    IN IF toks[v.next].k = ","
       THEN ParseElements(toks, v.next + 1, got)
       ELSE [val |-> got, next |-> v.next + 1]

json_loads(toks) == ParseValue(toks, 1).val

(***************************************************************************)
(* External collaborators.                                                 *)
(***************************************************************************)
Returned(v) == [st |-> "returned", val |-> v, exc |-> Unbound, wd |-> ""]

Raised(e) == [st |-> "raised", val |-> Unbound, exc |-> e, wd |-> ""]

Pending == [st |-> "pending", val |-> Unbound, exc |-> Unbound, wd |-> ""]

\* Downloader.get_repo_name(url): the repository name derived from the URL
get_repo_name(url) ==
    CASE url.s = "https://example/repo.git" -> PyStr("repo")
      [] OTHER -> PyStr("unknown")

\* lines 105 and 153 with the wrong attribute tested: if args.out_dir
url_given_out_dir(ns) == Truthy(ns.out_dir)

\* lines 105 and 153: if args.url / if options.url
url_given(ns) == Truthy(ns.url)

\* lines 154-155 without the assignment of options.dir
derive_from_url_name_only(ns) ==
    [ns EXCEPT !.repo_name = get_repo_name(ns.url)]

\* lines 154-155: repo_name and dir are replaced by the ones the URL gives
derive_from_url(ns) ==
    [ns EXCEPT !.repo_name = get_repo_name(ns.url),
               !.dir = str(TrueDiv(Path(ns.out_dir), get_repo_name(ns.url)))]

\* what sage.run_pipeline can return
SageReturns == {PyNone, PyInt(0), PyInt(1), PyInt(2)}

\* line 171 testing the sign instead of comparing with 0
SageFailedNegative(rc) == rc.t # "NoneType" /\ rc.n < 0

\* line 171: the pipeline's return code stops the run
SageFailed(rc) == rc.t # "NoneType" /\ rc # PyInt(0)

\* where the lint engine may leave the working directory
EngineDirs == {"/elsewhere"}

StartDirs == {"/home", "/work"}

(***************************************************************************)
(* Exception handling of the entry point.                                  *)
(***************************************************************************)
\* no handler matches: SystemExit ends the process with its code, anything
\* else is an uncaught exception
Propagate(exc) ==
    IF exc.s = "SystemExit" THEN SysExit(PyInt(exc.n)) ELSE Uncaught(exc)

\* the first try without the errno test of line 144: every OSError is
\* swallowed
Handler1AnyOSError(exc) ==
    CASE exc.s = "OSError" -> [kind |-> "resume", code |-> exc]
      [] exc.s = "KeyboardInterrupt" -> SysExit(PyInt(EXIT_CONTROL_C))
      [] exc.s = "RuntimeError" -> SysExit(exc)
      [] OTHER -> Propagate(exc)

\* the except clauses of the first try (lines 142-149); "resume" means the
\* exception was swallowed and execution goes on after the try statement
Handler1(exc) ==
    CASE exc.s = "OSError" ->
            IF exc.n # EPIPE THEN Uncaught(exc) ELSE [kind |-> "resume", code |-> exc]
      [] exc.s = "KeyboardInterrupt" -> SysExit(PyInt(EXIT_CONTROL_C))
      [] exc.s = "RuntimeError" -> SysExit(exc)
      [] OTHER -> Propagate(exc)

\* the second and third try with sys.exit(0) in the RuntimeError clause
Handler2ExitsZero(exc) ==
    CASE exc.s = "KeyboardInterrupt" -> SysExit(PyInt(EXIT_CONTROL_C))
      [] exc.s = "RuntimeError" -> SysExit(PyInt(0))
      [] OTHER -> Propagate(exc)

\* the except clauses of the second and third try (lines 173-176, 190-193)
Handler2(exc) ==
    CASE exc.s = "KeyboardInterrupt" -> SysExit(PyInt(EXIT_CONTROL_C))
      [] exc.s = "RuntimeError" -> SysExit(exc)
      [] OTHER -> Propagate(exc)

\* except Exception of main falling through to the return 0 of line 128
MainExceptReturns0(exc) ==
    IF IsException(exc) THEN [kind |-> "return", code |-> PyInt(0)]
    ELSE Handler1(exc)

\* except Exception of main (lines 124-126): "return" means main logs the
\* exception and returns -1, otherwise the exception reaches the entry point
MainExcept(exc) ==
    IF IsException(exc) THEN [kind |-> "return", code |-> PyInt(-1)]
    ELSE Handler1(exc)

\* an entry point that records the exit or the escaping exception and goes
\* on with the next stage instead of ending
DispatchGoesOn(d) ==
    /\ pc' = IF d.kind = "return" THEN "returned" ELSE "prep"
    /\ outcome' = IF d.kind \in {"resume", "return"} THEN Running ELSE d
    /\ return_code' = IF d.kind = "return" THEN d.code ELSE return_code
    /\ main_result' = IF d.kind = "return" THEN d.code ELSE main_result

\* main's except clause going on to lines 119-123 (directory, result file)
\* before it returns
DispatchThenPersist(d) ==
    /\ pc' = CASE d.kind = "resume" -> "prep"
               [] d.kind = "return" -> IF pc = "persist" THEN "returned" ELSE "persist"
               [] OTHER -> "terminated"
    /\ outcome' = IF d.kind \in {"resume", "return"} THEN Running ELSE d
    /\ return_code' = IF d.kind = "return" THEN d.code ELSE return_code
    /\ main_result' = IF d.kind = "return" THEN d.code ELSE main_result

\* the process state after an exception was dispatched to disposition d
Dispatch(d) ==
    /\ pc' = CASE d.kind = "resume" -> "prep"
               [] d.kind = "return" -> "returned"
               [] OTHER -> "terminated"
    /\ outcome' = IF d.kind \in {"resume", "return"} THEN Running ELSE d
    /\ return_code' = IF d.kind = "return" THEN d.code ELSE return_code
    /\ main_result' = IF d.kind = "return" THEN d.code ELSE main_result

NoteRaise(exc, where) == raised' = raised \cup {[at |-> where, exc |-> exc]}

\* line 125: _logger.exception(...) runs when main's except clause does
LogException(d) ==
    log' = IF d.kind = "return"
           THEN Append(log, [level |-> "ERROR",
                             msg |-> "An exception was thrown while running ansible-lint."])
           ELSE log

(***************************************************************************)
(* Initial state: the process starts with some command line, working       *)
(* directory and output directory (present or not).                        *)
(***************************************************************************)
NoExit == [raising |-> FALSE, depth |-> 0, left |-> ""]

Init ==
    /\ sys_argv \in CommandLines
    /\ pc = "start"
    /\ options = Unbound
    /\ args = Unbound
    /\ out_path = Unbound
    /\ lint_argv = <<>>
    /\ return_code = Unbound
    /\ cwd \in StartDirs
    /\ pushd_stack = <<>>
    /\ engine = Pending
    /\ serializable_result = Unbound
    /\ sage_scanning_args = Unbound
    /\ environ = {}
    /\ fs \in {{}, {"/out"}}
    /\ outcome = Running
    /\ calls = <<>>
    /\ raised = {}
    /\ main_result = Unbound
    /\ sage = Pending
    /\ entry_cwd = <<>>
    /\ last_exit = NoExit
    /\ log = <<>>

(***************************************************************************)
(* Steps of pushd and execute_ansiblelint, used by main below and by the   *)
(* nesting harness at the end of the module.                               *)
(***************************************************************************)
\* pushd lines 51-52: previous_dir = Path.cwd(); os.chdir(new_dir)
PushdEnterStep(new_dir) ==
    /\ pushd_stack' = pushd_enter(pushd_stack, cwd)
    /\ entry_cwd' = <<cwd>> \o entry_cwd
    /\ cwd' = new_dir

\* pushd lines 55-56: finally: os.chdir(previous_dir)
PushdExitStep(raising) ==
    /\ cwd' = pushd_finally(pushd_stack, cwd, raising)
    /\ pushd_stack' = Tail(pushd_stack)
    /\ entry_cwd' = Tail(entry_cwd)
    /\ last_exit' = [raising |-> raising, depth |-> Len(pushd_stack), left |-> cwd]

\* execute_ansiblelint line 65: ansiblelint_main(argv) runs in the working
\* directory, may change it, and returns its result or raises
EngineStep ==
    /\ calls' = Append(calls, "lint")
    /\ \E o \in {Returned(f) : f \in SeqsUpTo(Lintables, MaxFiles)}
                \cup {Raised(e) : e \in Raisable} :
        engine' = [o EXCEPT !.wd = cwd]
    /\ \E d \in {cwd} \cup EngineDirs : cwd' = d

(***************************************************************************)
(* _run_cli_entrypoint, lines 137-138: options = parse_args(argv).         *)
(***************************************************************************)
EntryParseArgs ==
    /\ pc = "start"
    /\ LET r == parse_args(sys_argv)
       IN IF r.t = "exception"
          THEN /\ Dispatch(Handler1(r))
               /\ UNCHANGED options
          ELSE /\ options' = r
               /\ pc' = "main"
               /\ UNCHANGED <<outcome, return_code, main_result>>
    /\ UNCHANGED <<sys_argv, args, out_path, lint_argv, cwd, pushd_stack,
                   engine, serializable_result, sage_scanning_args, environ,
                   fs, calls, raised, sage, entry_cwd, last_exit, log>>

(***************************************************************************)
(* main, lines 103-105: args = parse_args(argv); if args.url.              *)
(***************************************************************************)
MainBegin ==
    /\ pc = "main"
    /\ LET r == parse_args(sys_argv)
       IN IF r.t = "exception"
          THEN /\ Dispatch(Handler1(r))
               /\ UNCHANGED args
          ELSE /\ args' = r
               /\ pc' = IF url_given(r) THEN "fetch" ELSE "sarif"
               /\ UNCHANGED <<outcome, return_code, main_result>>
    /\ UNCHANGED <<sys_argv, options, out_path, lint_argv, cwd, pushd_stack,
                   engine, serializable_result, sage_scanning_args, environ,
                   fs, calls, raised, sage, entry_cwd, last_exit, log>>

(***************************************************************************)
(* main, lines 106-109: the downloader extracts the repository.  It may    *)
(* create the output directory; an exception it raises is outside main's   *)
(* try statement and reaches the entry point.                              *)
(***************************************************************************)
MainFetch ==
    /\ pc = "fetch"
    /\ calls' = Append(calls, "extract")
    /\ \E o \in {Returned(get_repo_name(args.url))} \cup {Raised(e) : e \in Raisable} :
        IF o.st = "returned"
        THEN /\ out_path' = Path(args.out_dir)
             /\ args' = [args EXCEPT !.dir = str(TrueDiv(Path(args.out_dir), o.val))]
             /\ \E made \in SUBSET {args.out_dir.s} : fs' = fs \cup made
             /\ pc' = "sarif"
             /\ UNCHANGED <<outcome, return_code, main_result, raised>>
        ELSE /\ Dispatch(Handler1(o.exc))
             /\ NoteRaise(o.exc, "fetch")
             /\ UNCHANGED <<out_path, args, fs>>
    /\ UNCHANGED <<sys_argv, options, lint_argv, cwd, pushd_stack, engine,
                   serializable_result, sage_scanning_args, environ, sage,
                   entry_cwd, last_exit, log>>

(***************************************************************************)
(* main, lines 111-115: sarif_file = str(out_path / "sarif.json") and the  *)
(* argument vector of the lint engine.  out_path is a local that only the  *)
(* URL branch assigns: reading it unassigned raises UnboundLocalError,     *)
(* outside main's try statement.                                           *)
(***************************************************************************)
MainSarif ==
    /\ pc = "sarif"
    /\ IF out_path.t = "unbound"
       THEN /\ Dispatch(Handler1(PyExc("UnboundLocalError", 0)))
            /\ NoteRaise(PyExc("UnboundLocalError", 0), "sarif")
            /\ UNCHANGED lint_argv
       ELSE /\ lint_argv' =
                  <<"__DUMMY__", "--sarif-file",
                    str(TrueDiv(out_path, PyStr("sarif.json"))).s, "--write">>
                  \o (IF Truthy(args.verbose) THEN <<"-v">> ELSE <<>>)
            /\ pc' = "lint"
            /\ UNCHANGED <<outcome, return_code, main_result, raised>>
    /\ UNCHANGED <<sys_argv, options, args, out_path, cwd, pushd_stack,
                   engine, serializable_result, sage_scanning_args, environ,
                   fs, calls, sage, entry_cwd, last_exit, log>>

(***************************************************************************)
(* execute_ansiblelint, line 64: with pushd(work_dir).  os.chdir raises    *)
(* OSError when the directory cannot be entered; that is inside main's try *)
(* statement.                                                              *)
(***************************************************************************)
LintPushd ==
    /\ pc = "lint"
    /\ \E entered \in BOOLEAN :
        IF entered
        THEN /\ PushdEnterStep(args.dir.s)
             /\ pc' = "engine"
             /\ UNCHANGED <<outcome, return_code, main_result, raised, log>>
        ELSE /\ Dispatch(MainExcept(PyExc("OSError", EPIPE + 1)))
             /\ LogException(MainExcept(PyExc("OSError", EPIPE + 1)))
             /\ NoteRaise(PyExc("OSError", EPIPE + 1), "chdir")
             /\ UNCHANGED <<pushd_stack, entry_cwd, cwd>>
    /\ UNCHANGED <<sys_argv, options, args, out_path, lint_argv, engine,
                   serializable_result, sage_scanning_args, environ, fs,
                   calls, sage, last_exit>>

(***************************************************************************)
(* execute_ansiblelint, line 65: the lint engine runs.                     *)
(***************************************************************************)
LintEngine ==
    /\ pc = "engine"
    /\ EngineStep
    /\ pc' = "lint_exit"
    /\ UNCHANGED <<sys_argv, options, args, out_path, lint_argv, return_code,
                   pushd_stack, serializable_result, sage_scanning_args,
                   environ, fs, outcome, raised, main_result, sage,
                   entry_cwd, last_exit, log>>

(***************************************************************************)
(* execute_ansiblelint, lines 66-68 with pushd lines 55-56: the result is  *)
(* projected, the finally clause restores the working directory, and an    *)
(* exception of the engine goes on to main's except clause.                *)
(***************************************************************************)
LintPushdExit ==
    /\ pc = "lint_exit"
    /\ PushdExitStep(engine.st = "raised")
    /\ IF engine.st = "returned"
       THEN /\ serializable_result' = execute_ansiblelint(engine.val)
            /\ pc' = "persist"
            /\ UNCHANGED <<outcome, return_code, main_result, raised, log>>
       ELSE /\ Dispatch(MainExcept(engine.exc))
            /\ LogException(MainExcept(engine.exc))
            /\ NoteRaise(engine.exc, "lint")
            /\ UNCHANGED serializable_result
    /\ UNCHANGED <<sys_argv, options, args, out_path, lint_argv, engine,
                   sage_scanning_args, environ, fs, calls, sage>>

(***************************************************************************)
(* main, lines 119-128: create the output directory if it is missing,      *)
(* open Path(args.out_dir / "lint-result.json") and write the JSON text.   *)
(* args.out_dir is a str, so the / is evaluated on two str; whatever it    *)
(* raises is caught by except Exception and main returns -1.               *)
(***************************************************************************)
MainPersist ==
    /\ pc = "persist"
    /\ LET made == fs \cup {args.out_dir.s}
           target == TrueDiv(args.out_dir, PyStr("lint-result.json"))
       IN IF target.t = "exception"
          THEN /\ fs' = made
               /\ Dispatch(MainExcept(target))
               /\ LogException(MainExcept(target))
               /\ NoteRaise(target, "persist")
               /\ UNCHANGED calls
          ELSE /\ fs' = made \cup {Path(target).s}
               /\ calls' = Append(calls, "lint-result.json")
               /\ return_code' = PyInt(0)
               /\ main_result' = PyInt(0)
               /\ pc' = "returned"
               /\ UNCHANGED <<outcome, raised, log>>
    /\ UNCHANGED <<sys_argv, options, args, out_path, lint_argv, cwd,
                   pushd_stack, engine, serializable_result,
                   sage_scanning_args, environ, sage, entry_cwd, last_exit>>

(***************************************************************************)
(* _run_cli_entrypoint, lines 139-141: return_code = main(argv); a code    *)
(* other than 0 is handed to sys.exit.                                     *)
(***************************************************************************)
EntryAfterMain ==
    /\ pc = "returned"
    /\ IF return_code # PyInt(0)
       THEN /\ pc' = "terminated"
            /\ outcome' = SysExit(return_code)
       ELSE /\ pc' = "prep"
            /\ UNCHANGED outcome
    /\ UNCHANGED <<sys_argv, options, args, out_path, lint_argv, return_code,
                   cwd, pushd_stack, engine, serializable_result,
                   sage_scanning_args, environ, fs, calls, raised,
                   main_result, sage, entry_cwd, last_exit, log>>

(***************************************************************************)
(* _run_cli_entrypoint, lines 152-155, between the first and the second    *)
(* try statement: the knowledge-base directory is read from the            *)
(* environment; in URL mode repo_name and dir are derived from the URL.    *)
(***************************************************************************)
EntryPrep ==
    /\ pc = "prep"
    /\ \E kb \in {PyNone, PyStr("/kb")} :
        options' =
            LET read == [options EXCEPT !.ari_kb_data_dir = kb]
            IN IF url_given(read) THEN derive_from_url(read) ELSE read
    /\ pc' = "sage"
    /\ UNCHANGED <<sys_argv, args, out_path, lint_argv, return_code, cwd,
                   pushd_stack, engine, serializable_result,
                   sage_scanning_args, environ, fs, outcome, calls, raised,
                   main_result, sage, entry_cwd, last_exit, log>>

\* A KeyboardInterrupt that arrives while lines 152-155 run is inside no
\* try statement: it leaves _run_cli_entrypoint as an uncaught exception.
EntryPrepInterrupt ==
    /\ pc = "prep"
    /\ NoteRaise(PyExc("KeyboardInterrupt", 0), "prep")
    /\ pc' = "terminated"
    /\ outcome' = Propagate(PyExc("KeyboardInterrupt", 0))
    /\ UNCHANGED <<sys_argv, options, args, out_path, lint_argv, return_code,
                   cwd, pushd_stack, engine, serializable_result,
                   sage_scanning_args, environ, fs, calls, main_result, sage,
                   entry_cwd, last_exit, log>>

(***************************************************************************)
(* _run_cli_entrypoint, lines 157-176: build sage_scanning_args, set the   *)
(* log level when verbose, import the sage module and run the pipeline.    *)
(* A return code that is neither None nor 0 is handed to sys.exit.  The    *)
(* pipeline writes sage-objects.json when it succeeds.                     *)
(***************************************************************************)
EntrySage ==
    /\ pc = "sage"
    /\ sage_scanning_args' =
          [ari_kb_data_dir |-> options.ari_kb_data_dir,
           target_dir |-> options.dir,
           output_dir |-> options.out_dir,
           repo_name |-> options.repo_name,
           source_type |-> options.source_type,
           repo_url |-> options.url]
    /\ environ' = IF Truthy(options.verbose)
                  THEN environ \cup {"SAGE_LOG_LEVEL=debug"} ELSE environ
    /\ calls' = Append(calls, "sage")
    /\ \E o \in {Returned(rc) : rc \in SageReturns} \cup {Raised(e) : e \in Raisable} :
        /\ sage' = o
        /\ IF o.st = "returned"
           THEN /\ return_code' = o.val
                /\ IF SageFailed(o.val)
                   THEN /\ pc' = "terminated"
                        /\ outcome' = SysExit(o.val)
                        /\ UNCHANGED fs
                   ELSE /\ pc' = "report"
                        /\ fs' = fs \cup {str(TrueDiv(Path(options.out_dir),
                                                      PyStr("sage-objects.json"))).s}
                        /\ UNCHANGED outcome
                /\ UNCHANGED raised
           ELSE /\ pc' = "terminated"
                /\ outcome' = Handler2(o.exc)
                /\ NoteRaise(o.exc, "sage")
                /\ UNCHANGED <<return_code, fs>>
    /\ UNCHANGED <<sys_argv, options, args, out_path, lint_argv, cwd,
                   pushd_stack, engine, serializable_result, main_result,
                   entry_cwd, last_exit, log>>

(***************************************************************************)
(* _run_cli_entrypoint, lines 179-194: the report renderer is called with  *)
(* the four artifact paths, then sys.exit(return_code).                    *)
(***************************************************************************)
EntryReport ==
    /\ pc = "report"
    /\ log' = Append(log, [level |-> "INFO", msg |-> "Generate parser-report.txt..."])
    /\ calls' = Append(calls, "report")
    /\ pc' = "terminated"
    /\ \E o \in {Returned(PyNone)} \cup {Raised(e) : e \in Raisable} :
        IF o.st = "returned"
        THEN /\ fs' = fs \cup {str(TrueDiv(Path(options.out_dir),
                                           PyStr("parser-report.txt"))).s}
             /\ outcome' = SysExit(return_code)
             /\ UNCHANGED raised
        ELSE /\ outcome' = Handler2(o.exc)
             /\ NoteRaise(o.exc, "report")
             /\ UNCHANGED fs
    /\ UNCHANGED <<sys_argv, options, args, out_path, lint_argv, return_code,
                   cwd, pushd_stack, engine, serializable_result,
                   sage_scanning_args, environ, main_result, sage, entry_cwd,
                   last_exit>>

Next ==
    \/ EntryParseArgs
    \/ MainBegin
    \/ MainFetch
    \/ MainSarif
    \/ LintPushd
    \/ LintEngine
    \/ LintPushdExit
    \/ MainPersist
    \/ EntryAfterMain
    \/ EntryPrep
    \/ EntryPrepInterrupt
    \/ EntrySage
    \/ EntryReport

Spec == Init /\ [][Next]_vars

(***************************************************************************)
(* pushd on its own: a caller that nests with pushd(...) blocks up to      *)
(* MaxDepth deep, changes directory inside them, leaves them by returning  *)
(* or by an exception that unwinds through the enclosing blocks, and calls *)
(* execute_ansiblelint from inside them.                                   *)
(***************************************************************************)
ScopeDirs == {"/a"} \cup EngineDirs

InitPushd ==
    /\ sys_argv = Namespace(PyNone, PyNone, PyNone, PyStr("/out"),
                            PyBool(FALSE), PyStr("https://example/repo.git"))
    /\ pc = "scope"
    /\ options = Unbound
    /\ args = Unbound
    /\ out_path = Unbound
    /\ lint_argv = <<>>
    /\ return_code = Unbound
    /\ cwd \in StartDirs
    /\ pushd_stack = <<>>
    /\ engine = Pending
    /\ serializable_result = Unbound
    /\ sage_scanning_args = Unbound
    /\ environ = {}
    /\ fs = {}
    /\ outcome = Running
    /\ calls = <<>>
    /\ raised = {}
    /\ main_result = Unbound
    /\ sage = Pending
    /\ entry_cwd = <<>>
    /\ last_exit = NoExit
    /\ log = <<>>

\* with pushd(d): entered, or os.chdir(d) raises and nothing was entered
ScopeEnter ==
    /\ pc = "scope"
    /\ Len(pushd_stack) < MaxDepth
    /\ \E d \in ScopeDirs, entered \in BOOLEAN :
        IF entered
        THEN PushdEnterStep(d) /\ UNCHANGED pc
        ELSE pc' = "unwind" /\ UNCHANGED <<pushd_stack, entry_cwd, cwd>>
    /\ UNCHANGED <<sys_argv, options, args, out_path, lint_argv, return_code,
                   engine, serializable_result, sage_scanning_args, environ,
                   fs, outcome, calls, raised, main_result, sage, last_exit,
                   log>>

\* the scoped operation changes the working directory
ScopeChdir ==
    /\ pc = "scope"
    /\ pushd_stack # <<>>
    /\ \E d \in ScopeDirs : cwd' = d
    /\ UNCHANGED <<sys_argv, pc, options, args, out_path, lint_argv,
                   return_code, pushd_stack, engine, serializable_result,
                   sage_scanning_args, environ, fs, outcome, calls, raised,
                   main_result, sage, entry_cwd, last_exit, log>>

\* the scoped operation raises
ScopeRaise ==
    /\ pc = "scope"
    /\ pushd_stack # <<>>
    /\ pc' = "unwind"
    /\ UNCHANGED <<sys_argv, options, args, out_path, lint_argv, return_code,
                   cwd, pushd_stack, engine, serializable_result,
                   sage_scanning_args, environ, fs, outcome, calls, raised,
                   main_result, sage, entry_cwd, last_exit, log>>

\* the innermost with block is left, normally or by the exception
ScopeExit ==
    /\ pc \in {"scope", "unwind"}
    /\ pushd_stack # <<>>
    /\ PushdExitStep(pc = "unwind")
    /\ UNCHANGED <<sys_argv, pc, options, args, out_path, lint_argv,
                   return_code, engine, serializable_result,
                   sage_scanning_args, environ, fs, outcome, calls, raised,
                   main_result, sage, log>>

\* the caller catches the exception
ScopeCatch ==
    /\ pc = "unwind"
    /\ pc' = "scope"
    /\ UNCHANGED <<sys_argv, options, args, out_path, lint_argv, return_code,
                   cwd, pushd_stack, engine, serializable_result,
                   sage_scanning_args, environ, fs, outcome, calls, raised,
                   main_result, sage, entry_cwd, last_exit, log>>

\* execute_ansiblelint(argv, d) is called, once per run of the harness
ScopeLintPushd ==
    /\ pc = "scope"
    /\ calls = <<>>
    /\ \E d \in ScopeDirs, entered \in BOOLEAN :
        IF entered
        THEN PushdEnterStep(d) /\ pc' = "scope_engine"
        ELSE pc' = "unwind" /\ UNCHANGED <<pushd_stack, entry_cwd, cwd>>
    /\ UNCHANGED <<sys_argv, options, args, out_path, lint_argv, return_code,
                   engine, serializable_result, sage_scanning_args, environ,
                   fs, outcome, calls, raised, main_result, sage, last_exit,
                   log>>

ScopeLintEngine ==
    /\ pc = "scope_engine"
    /\ EngineStep
    /\ pc' = "scope_exit"
    /\ UNCHANGED <<sys_argv, options, args, out_path, lint_argv, return_code,
                   pushd_stack, serializable_result, sage_scanning_args,
                   environ, fs, outcome, raised, main_result, sage,
                   entry_cwd, last_exit, log>>

\* execute_ansiblelint returns its mapping or lets the exception through
ScopeLintExit ==
    /\ pc = "scope_exit"
    /\ PushdExitStep(engine.st = "raised")
    /\ pc' = IF engine.st = "raised" THEN "unwind" ELSE "scope"
    /\ engine' = Pending
    /\ UNCHANGED <<sys_argv, options, args, out_path, lint_argv, return_code,
                   serializable_result, sage_scanning_args, environ, fs,
                   outcome, calls, raised, main_result, sage, log>>

NextPushd ==
    \/ ScopeEnter
    \/ ScopeChdir
    \/ ScopeRaise
    \/ ScopeExit
    \/ ScopeCatch
    \/ ScopeLintPushd
    \/ ScopeLintEngine
    \/ ScopeLintExit

SpecPushd == InitPushd /\ [][NextPushd]_vars

(***************************************************************************)
(* Vocabulary of the properties.                                           *)
(***************************************************************************)
Invoked(stage) == \E i \in 1..Len(calls) : calls[i] = stage

\* the position of the first invocation of a stage in the run
FirstCall(stage) == CHOOSE i \in 1..Len(calls) : calls[i] = stage

RaisedAt(places) == {r \in raised : r.at \in places}

UrlRun == Truthy(sys_argv.url) /\ Truthy(sys_argv.out_dir)

LocalRun ==
    Truthy(sys_argv.dir) /\ Truthy(sys_argv.out_dir) /\ ~Truthy(sys_argv.url)

Incomplete ==
    ~Truthy(sys_argv.out_dir) \/ (~Truthy(sys_argv.dir) /\ ~Truthy(sys_argv.url))

ArtifactPath(name) == str(TrueDiv(Path(sys_argv.out_dir), PyStr(name))).s

ExitedWith(code) == pc = "terminated" /\ outcome = SysExit(code)

Interrupted == \E r \in raised : r.exc.s = "KeyboardInterrupt"

\* the lint stage (execute_ansiblelint) raised an Exception
LintStageRaised == \E r \in RaisedAt({"chdir", "lint"}) : IsException(r.exc)

(***************************************************************************)
(* Properties.                                                             *)
(***************************************************************************)
\* C1: a run started with a URL and an output directory in which no
\* external stage raises and the pipeline returns None or 0 ends having
\* done, in this order, the extraction, the writing of lint-result.json,
\* the enrichment and the report, and exits with status 0.
C1_EndToEndUrlSuccess ==
    (/\ pc = "terminated"
     /\ UrlRun
     /\ RaisedAt({"fetch", "chdir", "lint", "prep", "sage", "report"}) = {}
     /\ (sage.st = "returned" => sage.val \in {PyNone, PyInt(0)}))
    => /\ calls = <<"extract", "lint", "lint-result.json", "sage", "report">>
       /\ outcome.kind = "exit"
       /\ ExitStatus(outcome.code) = 0

\* C2: a run started with a directory and an output directory and no URL
\* skips the downloader and always attempts the lint stage, with the SARIF
\* path derived from the output directory and the given directory as the
\* engine's working directory.
C2_LocalModeLints ==
    (LocalRun /\ pc = "terminated")
    => /\ ~Invoked("extract")
       /\ Invoked("lint") \/ RaisedAt({"chdir"}) # {}
       /\ Len(lint_argv) >= 3
       /\ lint_argv[3] = ArtifactPath("sarif.json")
       /\ Invoked("lint") => engine.wd = sys_argv.dir.s

\* C3: once the lint stage has raised an exception (an instance of
\* Exception; a user interrupt is the subject of C9), main returns -1, the
\* enrichment pipeline and the report renderer are never invoked, no
\* sage-objects.json exists, and the process exits with -1, not with 0.
C3_LintFailureAborts ==
    LintStageRaised
    => /\ pc \in {"returned", "terminated"}
       /\ main_result = PyInt(-1)
       /\ ~Invoked("sage") /\ ~Invoked("report")
       /\ ArtifactPath("sage-objects.json") \notin fs
       /\ pc = "terminated"
          => outcome = SysExit(PyInt(-1)) /\ ExitStatus(outcome.code) # 0

C3_Witness ==
    /\ engine.st = "raised"
    /\ LintStageRaised
    /\ ExitedWith(PyInt(-1))

\* C4: when the enrichment pipeline returned a value that is neither None
\* nor 0 the run has ended with exactly that code and the report renderer
\* was not invoked; the renderer is invoked only after the pipeline
\* returned None or 0.
C4_EnrichmentGatesReport ==
    /\ (sage.st = "returned" /\ sage.val \notin {PyNone, PyInt(0)})
       => ExitedWith(sage.val) /\ ~Invoked("report")
    /\ Invoked("report")
       => /\ sage.st = "returned" /\ sage.val \in {PyNone, PyInt(0)}
          /\ Invoked("sage") /\ FirstCall("sage") < FirstCall("report")

C4_Witness ==
    /\ sage = Returned(PyInt(2))
    /\ ExitedWith(PyInt(2))
    /\ ~Invoked("report")

\* C5: the enrichment pipeline is invoked only in a run in which the lint
\* engine was invoked and returned and main returned 0.
C5_EnrichmentOnlyAfterLint ==
    Invoked("sage")
    => /\ Invoked("lint") /\ engine.st = "returned"
       /\ main_result = PyInt(0)

\* C6: for a command line without an output directory, or with neither a
\* directory nor a URL, the only step of the run is the rejection: it ends
\* the process with exit code 1, no stage has been invoked and nothing was
\* created on disk.
C6_IncompleteRejected ==
    [][Incomplete
       => /\ pc' = "terminated"
          /\ outcome' = SysExit(PyInt(1))
          /\ calls' = <<>>
          /\ fs' = fs]_vars

C6_Witness ==
    /\ Incomplete
    /\ Truthy(sys_argv.url)
    /\ ExitedWith(PyInt(1))
    /\ calls = <<>>

C8_PushdRestores ==
    [][/\ Len(pushd_stack') < Len(pushd_stack) => cwd' = Head(entry_cwd)
       /\ (pc = "scope" /\ pc' = "unwind") => cwd' = cwd]_vars

C8_Witness ==
    /\ last_exit.raising
    /\ last_exit.depth = 2
    /\ last_exit.left # cwd
    /\ pc = "unwind"
    /\ cwd = Head(entry_cwd)
    /\ calls = <<"lint">>

\* C9: after a KeyboardInterrupt has arrived anywhere in the run (during
\* fetching, linting, the preparation of the enrichment configuration,
\* enrichment or reporting) the process has exited with RC.EXIT_CONTROL_C
\* and, being ended, invokes no further stage.
C9_InterruptExits ==
    Interrupted => ExitedWith(PyInt(EXIT_CONTROL_C))

\* C10: the mapping execute_ansiblelint returns for an engine result of N
\* files has the single key "files", holding N records, the i-th being the
\* projection of the engine's i-th file, and json.loads(json.dumps(...))
\* of it gives the same mapping back.
C10_LintResultProjection ==
    serializable_result # Unbound
    => LET files == engine.val
           records == serializable_result.files
       IN /\ DOMAIN serializable_result = {"files"}
          /\ Len(records) = Len(files)
          /\ \A i \in 1..Len(files) :
                /\ records[i] = LintableDict(files[i])
                /\ records[i].filename = PyStr(files[i].filename.s)
                /\ records[i].parent.t = "NoneType"
                   <=> files[i].parent.t = "NoneType"
          /\ json_loads(json_dumps(serializable_result)) = serializable_result
          /\ Len(json_loads(json_dumps(serializable_result)).files) = Len(files)

C10_Witness ==
    /\ serializable_result # Unbound
    /\ Len(serializable_result.files) = 2
    /\ engine.val = <<TasksYml, BrokenYml>>
    /\ json_loads(json_dumps(serializable_result)).files[1].parent = PyStr("site.yml")

\* the OSErrors raised at the given places
OSErrorsAt(places) == {r \in RaisedAt(places) : r.exc.s = "OSError"}

\* the run went on after the first try statement
WentOn ==
    \/ pc \in {"prep", "sage", "report"}
    \/ Invoked("sage")
    \/ RaisedAt({"prep"}) # {}

\* C11 as stated: an OSError raised while fetching or linting is ignored
\* only if its errno is EPIPE, and with any other errno it leaves the entry
\* point as an uncaught exception, never as an exit code.
C11_OSErrorPropagates ==
    \A r \in OSErrorsAt({"fetch", "chdir", "lint"}) :
        /\ WentOn => r.exc.n = EPIPE
        /\ r.exc.n # EPIPE => pc = "terminated" /\ outcome = Uncaught(r.exc)

\* C11 amended: an OSError raised by the downloader is ignored exactly when
\* its errno is EPIPE (the run goes on after the first try statement) and
\* with any other errno leaves the entry point uncaught; an OSError raised
\* in the lint stage, whatever its errno, is caught by main, logged, and
\* ends the run with exit code -1.
C11_OSErrorByPhase ==
    /\ \A r \in OSErrorsAt({"fetch"}) :
          IF r.exc.n = EPIPE THEN WentOn
          ELSE /\ pc = "terminated" /\ outcome = Uncaught(r.exc)
               /\ calls = <<"extract">>
    /\ \A r \in OSErrorsAt({"chdir", "lint"}) :
          /\ ~WentOn
          /\ main_result = PyInt(-1)
          /\ Len(log) = 1 /\ log[1].level = "ERROR"
          /\ pc = "terminated" => outcome = SysExit(PyInt(-1))

C11_Witness ==
    /\ OSErrorsAt({"fetch"}) = {}
    /\ \E r \in OSErrorsAt({"lint"}) : r.exc.n # EPIPE
    /\ ExitedWith(PyInt(-1))

\* the status the process ends with: an uncaught exception makes the
\* interpreter print the traceback and exit with status 1
ProcessStatus(o) == IF o.kind = "uncaught" THEN 1 ELSE ExitStatus(o.code)

ErrorLogged == \E i \in 1..Len(log) : log[i].level = "ERROR"

ExitedZero ==
    pc = "terminated" /\ outcome.kind = "exit" /\ ExitStatus(outcome.code) = 0

\* C13: a run that ends with exit code 0 invoked the lint stage, the
\* enrichment pipeline and the report renderer, none of them raised, and
\* the pipeline returned None or 0.
C13_ExitZeroOnlyOnSuccess ==
    ExitedZero =>
        /\ Invoked("lint") /\ Invoked("sage") /\ Invoked("report")
        /\ RaisedAt({"chdir", "lint", "persist", "sage", "report"}) = {}
        /\ sage.st = "returned" /\ ~SageFailed(sage.val)

\* the lint engine raised an exception that main's except clause caught
EngineRaisedCaught == \E r \in RaisedAt({"lint"}) : IsException(r.exc)

\* lines 119-123 were entered: the directory test and the open of the
\* result file
PersistAttempted == RaisedAt({"persist"}) # {} \/ Invoked("lint-result.json")

\* C14 as stated: when the lint engine raises, the output directory exists
\* and a write of the partial result was attempted by the time main has
\* returned the sentinel code.
C14_AbortEnsuresDirAndPersists ==
    EngineRaisedCaught /\ main_result = PyInt(-1) =>
        args.out_dir.s \in fs /\ PersistAttempted

\* C14 amended: when the lint engine raises, main logs the exception and
\* returns -1 at once: lines 119-123 are skipped, so the output directory
\* is neither tested nor created, no result is available or written, and
\* the file system stays as it was for the rest of the run.
C14_AbortSkipsPersist ==
    /\ [](EngineRaisedCaught =>
            /\ main_result = PyInt(-1)
            /\ ErrorLogged
            /\ serializable_result = Unbound
            /\ ~PersistAttempted
            /\ pc \in {"returned", "terminated"})
    /\ [][(pc = "lint_exit" /\ engine.st = "raised") \/ EngineRaisedCaught
            => fs' = fs]_vars

C14_Witness ==
    /\ EngineRaisedCaught
    /\ ExitedWith(PyInt(-1))
    /\ args.out_dir.s \notin fs
    /\ calls = <<"extract", "lint">>

\* C15: when the lint engine returned, main has, by the time it returns,
\* created the output directory, written lint-result.json there, and
\* returns 0.
C15_LintResultWritten ==
    engine.st = "returned" /\ main_result # Unbound =>
        /\ main_result = PyInt(0)
        /\ args.out_dir.s \in fs
        /\ ArtifactPath("lint-result.json") \in fs
        /\ Invoked("lint-result.json")

\* the place of a stage in the pipeline; the write of lint-result.json is
\* recorded in calls too and is no stage
StageRank(stage) ==
    CASE stage = "extract" -> 1
      [] stage = "lint" -> 2
      [] stage = "sage" -> 3
      [] stage = "report" -> 4
      [] OTHER -> 0

StageCalls == {i \in 1..Len(calls) : StageRank(calls[i]) > 0}

\* C16: the stages are invoked at most once each and in the order
\* extraction < lint < enrichment < report; the extraction is invoked only
\* when a URL was given, and the report never without the enrichment.
C16_StagesOnceInOrder ==
    /\ \A i, j \in StageCalls :
          i < j => StageRank(calls[i]) < StageRank(calls[j])
    /\ Invoked("extract") => sys_argv.url.t = "str" /\ sys_argv.url.s # ""
    /\ Invoked("report") => Invoked("sage") /\ FirstCall("sage") < FirstCall("report")

C16_Witness ==
    /\ calls = <<"extract", "sage", "report">>
    /\ sys_argv.url.t = "str"
    /\ sys_argv.dir.t = "str"
    /\ pc = "terminated"

(***************************************************************************)
(* The entry point is one thread of straight-line code: a step that can    *)
(* be taken is taken, every external call returning or raising (weak       *)
(* fairness on Next).                                                      *)
(***************************************************************************)
FairSpec == Spec /\ WF_vars(Next)

\* C17: every run ends, in exactly one terminal outcome (sys.exit with
\* status 0, sys.exit with a non-zero status, or an exception leaving the
\* entry point), and from then on nothing happens: no stage is invoked and
\* the outcome does not change.
C17_TerminatesOnce ==
    /\ <>[](pc = "terminated")
    /\ [](pc = "terminated" <=> outcome.kind \in {"exit", "uncaught"})
    /\ [](pc # "terminated" <=> outcome = Running)
    /\ [][pc # "terminated" /\ outcome = Running]_vars

C17_Witness ==
    /\ pc = "terminated"
    /\ outcome.kind = "uncaught"
    /\ calls = <<"extract">>
    /\ ~ENABLED Next

\* C18: with a URL the enrichment pipeline is handed the repository name
\* the URL gives and the output directory joined with that name as its
\* target directory, whatever --repo-name and --dir said; without a URL the
\* name and directory of the command line stay as they were given, in the
\* options and in what the pipeline is handed.
C18_SageGetsDerivedNames ==
    /\ sage_scanning_args # Unbound /\ sys_argv.url.t = "str" =>
          /\ sage_scanning_args.repo_name = get_repo_name(sys_argv.url)
          /\ sage_scanning_args.target_dir =
                str(TrueDiv(Path(sys_argv.out_dir), get_repo_name(sys_argv.url)))
          /\ sage_scanning_args.output_dir = sys_argv.out_dir
          /\ sage_scanning_args.repo_url = sys_argv.url
    /\ sage_scanning_args # Unbound /\ sys_argv.url.t # "str" =>
          /\ sage_scanning_args.repo_name = sys_argv.repo_name
          /\ sage_scanning_args.target_dir = sys_argv.dir
    /\ options # Unbound /\ sys_argv.url.t # "str" =>
          /\ options.repo_name = sys_argv.repo_name
          /\ options.dir = sys_argv.dir

C18_Witness ==
    /\ sage_scanning_args # Unbound
    /\ sys_argv.dir = PyStr("/src")
    /\ sys_argv.repo_name = PyStr("ns/given")
    /\ sage_scanning_args.target_dir = PyStr("/out/repo")
    /\ sage_scanning_args.repo_name = PyStr("repo")

====
